---- MODULE Spec2Model ----
(***************************************************************************)
(* Model of argus-cpu-display-service.py: the CPUDisplayService controller *)
(* (start / stop / update_loop / write_temp), the ArgusMonitorAPI sensor   *)
(* source built on a foreign-owned shared memory table, and the HID        *)
(* display device.                                                         *)
(*                                                                         *)
(* Two tasks run: the controlling task (main: start, later stop) and the   *)
(* poll thread (update_loop).  A third party, the external monitoring     *)
(* process, rewrites the shared table at any moment.                       *)
(*                                                                         *)
(* Raw temperatures are doubles; they are represented in half degrees      *)
(* (the integer h stands for h/2 degrees C) so that Python's round(), which *)
(* rounds halves to even, is computed and not assumed.  NonFinite stands   *)
(* for NaN / +-inf, on which round() raises.                               *)
(***************************************************************************)
EXTENDS Integers, Sequences, FiniteSets, TLC

\* ---- program constants ------------------------------------------------
MAX_SENSOR_COUNT == 512
USB_PACKET_SIZE == 65
USB_PACKET_REPORT_ID == 0
USB_PACKET_COMMAND == 16
TEMP_MIN == 0
TEMP_MAX == 99
DEFAULT_UPDATE_INTERVAL == 1
MANDATORY_UPDATE_INTERVAL == 15
ARGUS_CONNECTION_MAX_RETRIES == 6
ARGUS_CONNECTION_RETRY_DELAY == 10
JOIN_TIMEOUT == 2

\* ---- bounds of the model ----------------------------------------------
\* the clock value up to which the poll loop's timed steps are followed
\* (start()'s sleeps are not limited by it)
MaxTime == 18
\* number of stop() calls followed
MaxStops == 2
\* longest time one device.write() call is seen to block, in seconds
MaxWriteBlock == 1
\* largest magnitude of a raw reading, in half degrees, given to write_temp
\* when it is called on its own
MaxRawHalf == 205
\* number of connect_display() calls followed when the display writer's
\* methods are called on their own
MaxConnects == 2

\* ---- values -------------------------------------------------------------
\* None, for the integer-valued Python attributes that start as None
None == -2
\* a double on which round() raises (NaN, inf)
NonFinite == 100000
\* raw readings, in half degrees: -10.5, 42.5, 150.0, NaN
RawTemps == {-21, 85, 300, NonFinite}
\* (offset, count) pairs a category entry of the table may hold
CategoryEntries ==
    { [offset |-> 0, count |-> 0],
      [offset |-> 0, count |-> 1],
      [offset |-> MAX_SENSOR_COUNT, count |-> 1] }

VARIABLES
    \* ---- the controlling task (main / start / stop)
    mpc,            \* position of the controlling task
    attempt,        \* loop index of start()'s for loop
    stop_event,     \* CPUDisplayService.stop_event
    update_thread,  \* hasattr(self, 'update_thread')
    \* ---- ArgusMonitorAPI object referenced by self.argus
    argus,          \* None-record or [handle, map_view, cpu_temp_offset, cpu_temp_count]
    \* ---- external world
    Signature,      \* TRUE iff the table's Signature field equals ARGUS_SIGNATURE
    openMappings,   \* number of sensor-table mappings this process holds open
    now,            \* time.time(), in seconds
    \* ---- display
    device,         \* "None" | "unopened" | "open" | "closed"
    packet,         \* self.packet
    last_temp,      \* self.last_temp
    next_mandatory_write_time,
    \* ---- the poll thread
    tpc,            \* position of update_loop
    \* ---- observation (history) variables
    connectCalls,   \* connect_argus() calls made by start()
    connectFails,   \* those that returned False
    delays,         \* time.sleep(ARGUS_CONNECTION_RETRY_DELAY) calls made
    displayCalls,   \* connect_display() calls made
    startResult,    \* "none" | "true" | "false" | "raised"
    sigAtCache,     \* what _cache_sensor_info saw: "none" | "active" | "inactive"
    tableAtCache,   \* <<primary, additional>> entries of the table it then read,
                    \* kept until the attempt's is_active() (<<>> otherwise)
    mapReleases,    \* UnmapViewOfFile/CloseHandle pairs issued on self.argus
    deviceCloseCalls, \* device.close() calls issued
    stopCalls,      \* stop() calls begun
    lastOkTemp,     \* value carried by the last device.write that succeeded
    lastOkTime,     \* time of that write (None if there was none)
    tickOutcome,    \* what the latest tick did
    tickRaw,        \* raw reading the latest tick got (None if none)
    tickRepeat,     \* the latest two ticks computed the same clamped value
    tickTemp,       \* clamped value computed by the latest tick (None if none)
    tickForce,      \* force flag computed by the latest tick
    tickPrevLast    \* last_temp when the latest write_temp call began

ctlVars == <<mpc, attempt, stop_event, update_thread>>
srcVars == <<argus, Signature, openMappings>>
dispVars == <<device, packet, last_temp, next_mandatory_write_time>>
startObs == <<connectCalls, connectFails, delays, displayCalls, startResult, sigAtCache,
              tableAtCache>>
stopObs == <<mapReleases, deviceCloseCalls, stopCalls>>
tickObs == <<lastOkTemp, lastOkTime, tickOutcome, tickRaw, tickTemp, tickForce,
            tickPrevLast, tickRepeat>>
vars == <<ctlVars, srcVars, dispVars, now, tpc, startObs, stopObs, tickObs>>

\* ---- pure functions -----------------------------------------------------

\* a round() that takes halves upwards
round_half_up(h) == (h + 1) \div 2

\* Python round() of the double h/2: nearest integer, halves to even
round(h) ==
    LET q == h \div 2
    IN  IF h % 2 = 0 THEN q
        ELSE IF q % 2 = 0 THEN q ELSE q + 1

\* write_temp, lines 326-330
clamp(t) ==
    IF t > TEMP_MAX THEN TEMP_MAX
    ELSE IF t < TEMP_MIN THEN TEMP_MIN
    ELSE t

\* a packet buffer whose command byte was never set
InitialPacketNoCommand ==
    [i \in 0..(USB_PACKET_SIZE - 1) |-> 0]

\* CPUDisplayService.__init__: bytearray(65) with bytes 0 and 1 set
InitialPacket ==
    [i \in 0..(USB_PACKET_SIZE - 1) |->
        IF i = 0 THEN USB_PACKET_REPORT_ID
        ELSE IF i = 1 THEN USB_PACKET_COMMAND
        ELSE 0]

NoArgus == [handle |-> FALSE, map_view |-> FALSE,
            cpu_temp_offset |-> None, cpu_temp_count |-> None, obj |-> FALSE]

Init ==
    /\ mpc = "start"
    /\ attempt = 0
    /\ stop_event = FALSE
    /\ update_thread = FALSE
    /\ argus = NoArgus
    /\ Signature \in BOOLEAN
    /\ openMappings = 0
    /\ now = 1
    /\ device = "None"
    /\ packet = InitialPacket
    /\ last_temp = -1
    /\ next_mandatory_write_time = 0
    /\ tpc = "idle"
    /\ connectCalls = 0
    /\ connectFails = 0
    /\ delays = 0
    /\ displayCalls = 0
    /\ startResult = "none"
    /\ sigAtCache = "none"
    /\ tableAtCache = <<>>
    /\ mapReleases = 0
    /\ deviceCloseCalls = 0
    /\ stopCalls = 0
    /\ lastOkTemp = None
    /\ lastOkTime = None
    /\ tickOutcome = "none"
    /\ tickRaw = None
    /\ tickRepeat = FALSE
    /\ tickTemp = None
    /\ tickForce = FALSE
    /\ tickPrevLast = None

\* ---- the external monitoring process ------------------------------------
\* It owns the table and rewrites the signature at any moment (starting up,
\* shutting down, mid-write).
ExternalWriter ==
    /\ Signature' = ~Signature
    /\ UNCHANGED <<ctlVars, argus, openMappings, dispVars, now, tpc,
                   startObs, stopObs, tickObs>>


\* ---- ArgusMonitorAPI ------------------------------------------------------

\* a _cache_sensor_info that never falls back to the additional category
_cache_sensor_info_primary_only(sig, prim, addl) ==
    IF ~sig THEN [offset |-> None, count |-> None]
    ELSE [offset |-> prim.offset, count |-> prim.count]

\* _cache_sensor_info: the (offset, count) kept, given the signature read and
\* the table's primary and additional CPU-temperature entries
_cache_sensor_info(sig, prim, addl) ==
    IF ~sig THEN [offset |-> None, count |-> None]
    ELSE IF prim.count = 0 THEN [offset |-> addl.offset, count |-> addl.count]
    ELSE [offset |-> prim.offset, count |-> prim.count]

\* a get_cpu_temp_raw without its signature test
get_cpu_temp_raw_ungated(a, sig) ==
    IF a.cpu_temp_count = 0 THEN "None"
    ELSE IF a.cpu_temp_offset = None THEN "raise"
    ELSE IF a.cpu_temp_offset >= MAX_SENSOR_COUNT THEN "raise"
    ELSE "value"

\* get_cpu_temp_raw: "None" (unavailable), "value" (sensors[offset].Value is
\* returned) or "raise" (the indexing raises: TypeError on a None offset,
\* IndexError beyond the table's capacity)
get_cpu_temp_raw(a, sig) ==
    IF a.cpu_temp_count = 0 THEN "None"
    ELSE IF ~sig THEN "None"
    ELSE IF a.cpu_temp_offset = None THEN "raise"
    ELSE IF a.cpu_temp_offset >= MAX_SENSOR_COUNT THEN "raise"
    ELSE "value"

\* get_all_cpu_temps: TRUE iff it returns (FALSE: sensors[offset + i] raises)
get_all_cpu_temps(sig, prim) ==
    \/ ~sig
    \/ prim.count = 0
    \/ prim.offset + prim.count - 1 < MAX_SENSOR_COUNT

\* a retry test off by one: the last attempt is followed by another
AfterFailedAttemptOneMore(att) ==
    IF att < ARGUS_CONNECTION_MAX_RETRIES THEN "sleep" ELSE "failed"

\* the "return False" of line 376 missing: the loop ends and start() goes on
AfterFailedAttemptFallThrough(att) ==
    IF att < ARGUS_CONNECTION_MAX_RETRIES - 1 THEN "sleep" ELSE "connect_display"

\* start(), lines 371-376: what follows a failed connect_argus()
AfterFailedAttempt(att) ==
    IF att < ARGUS_CONNECTION_MAX_RETRIES - 1 THEN "sleep" ELSE "failed"

\* ---- start(): connecting the source -------------------------------------

\* connect_argus, first half: ArgusMonitorAPI() = _open_shared_memory and
\* _cache_sensor_info.  opened = FALSE: OpenFileMappingW or MapViewOfFile failed
\* and __init__ raised, so self.argus keeps its former object.
connect_argus_open ==
    /\ mpc = "start"
    /\ connectCalls' = connectCalls + 1
    /\ \E opened \in BOOLEAN :
        IF opened
        THEN \E prim \in CategoryEntries, addl \in CategoryEntries :
                LET c == _cache_sensor_info(Signature, prim, addl)
                IN  /\ argus' = [handle |-> TRUE, map_view |-> TRUE,
                                 cpu_temp_offset |-> c.offset,
                                 cpu_temp_count |-> c.count, obj |-> TRUE]
                    /\ openMappings' = openMappings + 1
                    /\ sigAtCache' = IF Signature THEN "active" ELSE "inactive"
                    /\ tableAtCache' = IF Signature THEN <<prim, addl>> ELSE <<>>
                    /\ mpc' = "is_active"
                    /\ UNCHANGED <<startResult, connectFails>>
        ELSE /\ UNCHANGED <<argus, openMappings, sigAtCache, tableAtCache>>
             /\ connectFails' = connectFails + 1
             /\ mpc' = AfterFailedAttempt(attempt)
             /\ startResult' = IF AfterFailedAttempt(attempt) = "failed"
                               THEN "false" ELSE startResult
    /\ UNCHANGED <<attempt, stop_event, update_thread, Signature, dispVars, now,
                   tpc, delays, displayCalls, stopObs, tickObs>>

\* connect_argus, second half: self.argus.is_active()
connect_argus_is_active ==
    /\ mpc = "is_active"
    /\ IF Signature
       THEN /\ mpc' = "connect_display"
            /\ UNCHANGED <<startResult, connectFails>>
       ELSE /\ connectFails' = connectFails + 1
            /\ mpc' = AfterFailedAttempt(attempt)
            /\ startResult' = IF AfterFailedAttempt(attempt) = "failed"
                              THEN "false" ELSE startResult
    /\ tableAtCache' = <<>>
    /\ UNCHANGED <<attempt, stop_event, update_thread, srcVars, dispVars, now, tpc,
                   connectCalls, delays, displayCalls, sigAtCache, stopObs, tickObs>>

\* start(), lines 372-373: time.sleep(ARGUS_CONNECTION_RETRY_DELAY), next attempt
start_retry_sleep ==
    /\ mpc = "sleep"
    /\ now' = now + ARGUS_CONNECTION_RETRY_DELAY
    /\ delays' = delays + 1
    /\ attempt' = attempt + 1
    /\ mpc' = "start"
    /\ UNCHANGED <<stop_event, update_thread, srcVars, dispVars, tpc,
                   connectCalls, connectFails, displayCalls, startResult,
                   sigAtCache, tableAtCache, stopObs, tickObs>>

\* a start() that calls connect_display again after it failed
AfterDisplayFailureRetry == "connect_display"

\* start(), lines 378-379: "if not self.connect_display(): return False"
AfterDisplayFailure == "failed"

\* connect_display: hid.device() then open(VENDOR_ID, PRODUCT_ID)
connect_display ==
    /\ mpc = "connect_display"
    /\ displayCalls' = displayCalls + 1
    /\ \E opened \in BOOLEAN :
        IF opened
        THEN /\ device' = "open"
             /\ next_mandatory_write_time' = 0
             /\ mpc' = "list_temps"
             /\ startResult' = startResult
        ELSE /\ device' = "unopened"
             /\ next_mandatory_write_time' = next_mandatory_write_time
             /\ mpc' = AfterDisplayFailure
             /\ startResult' = "false"
    /\ UNCHANGED <<attempt, stop_event, update_thread, srcVars, packet, last_temp,
                   now, tpc, connectCalls, connectFails, delays, sigAtCache, tableAtCache,
                   stopObs, tickObs>>

\* start(), lines 381-388: get_all_cpu_temps(), then the poll thread is started
start_thread ==
    /\ mpc = "list_temps"
    /\ \E prim \in CategoryEntries :
        IF get_all_cpu_temps(Signature, prim)
        THEN /\ update_thread' = TRUE
             /\ tpc' = "check"
             /\ mpc' = "running"
             /\ startResult' = "true"
        ELSE /\ UNCHANGED <<update_thread, tpc>>
             /\ mpc' = "raised"
             /\ startResult' = "raised"
    /\ UNCHANGED <<attempt, stop_event, srcVars, dispVars, now, connectCalls,
                   connectFails, delays, displayCalls, sigAtCache, tableAtCache,
                   stopObs, tickObs>>


\* ---- update_loop (the poll thread) ----------------------------------------

\* a loop that never looks at the stop flag
LoopContinuesAlways(stop) == TRUE

\* update_loop, line 360: the loop condition
LoopContinues(stop) == ~stop

\* a refresh test that misses the deadline itself
ForceWriteLate(t, next) == t > next

\* update_loop, line 363: force_write
ForceWrite(t, next) == t >= next

\* a skip test that does not look at the force flag
SkipWriteIgnoringForce(force, temp_int, last) == temp_int = last

\* write_temp, line 332: the debounce test
SkipWrite(force, temp_int, last) == ~force /\ temp_int = last

\* a write_temp that does not record the value it sends
LastTempNotRecorded(temp_int, last) == last

\* write_temp, line 338: last_temp as left when device.write is called
LastTempAtWrite(temp_int, last) == temp_int

\* Signature values a read of the table may see.  Once the view has been
\* unmapped (ArgusMonitorAPI.close), data_ptr dangles: the read may see
\* anything.
\* (A cached count of 0 returns before any read of the table, line 166.)
SignatureReads == IF argus.map_view THEN {Signature} ELSE BOOLEAN

\* "while not self.stop_event.is_set()"
update_loop_check ==
    /\ tpc = "check"
    /\ tpc' = IF LoopContinues(stop_event) THEN "tick" ELSE "done"
    /\ UNCHANGED <<ctlVars, srcVars, dispVars, now, startObs, stopObs, tickObs>>

\* One tick up to the device write: get_cpu_temp_raw(), force_write, and
\* write_temp() as far as its call of device.write (lines 361-364, 321-342).
update_loop_tick ==
    /\ tpc = "tick"
    /\ \E sig \in SignatureReads, faults \in BOOLEAN, raw \in RawTemps :
        LET got == IF argus.cpu_temp_count # 0 /\ ~argus.map_view /\ faults
                   THEN "raise"
                   ELSE get_cpu_temp_raw(argus, sig)
            force == ForceWrite(now, next_mandatory_write_time)
            temp_int == clamp(round(raw))
        IN
        \/ /\ got = "None"
           /\ tpc' = "wait"
           /\ tickOutcome' = "unavailable"
           /\ tickRaw' = None
           /\ tickTemp' = None
           /\ tickForce' = FALSE
           /\ tickRepeat' = FALSE
           /\ UNCHANGED <<tickPrevLast, last_temp, packet>>
        \/ /\ got = "raise"
           /\ tpc' = "dead"
           /\ tickOutcome' = "raised"
           /\ tickRaw' = None
           /\ tickTemp' = None
           /\ tickForce' = FALSE
           /\ tickRepeat' = FALSE
           /\ UNCHANGED <<tickPrevLast, last_temp, packet>>
        \/ /\ got = "value"
           /\ device = "None"
           /\ tpc' = "wait"
           /\ tickOutcome' = "nodevice"
           /\ tickRaw' = raw
           /\ tickTemp' = None
           /\ tickForce' = force
           /\ tickRepeat' = FALSE
           /\ UNCHANGED <<tickPrevLast, last_temp, packet>>
        \/ /\ got = "value"
           /\ device # "None"
           /\ raw = NonFinite
           /\ tpc' = "wait"
           /\ tickOutcome' = "error"
           /\ tickRaw' = raw
           /\ tickTemp' = None
           /\ tickForce' = force
           /\ tickRepeat' = FALSE
           /\ tickPrevLast' = last_temp
           /\ UNCHANGED <<last_temp, packet>>
        \/ /\ got = "value"
           /\ device # "None"
           /\ raw # NonFinite
           /\ SkipWrite(force, temp_int, last_temp)
           /\ tpc' = "wait"
           /\ tickOutcome' = "skipped"
           /\ tickRaw' = raw
           /\ tickTemp' = temp_int
           /\ tickForce' = force
           /\ tickRepeat' = (tickTemp = temp_int)
           /\ tickPrevLast' = last_temp
           /\ UNCHANGED <<last_temp, packet>>
        \/ /\ got = "value"
           /\ device # "None"
           /\ raw # NonFinite
           /\ ~SkipWrite(force, temp_int, last_temp)
           /\ last_temp' = LastTempAtWrite(temp_int, last_temp)
           /\ packet' = [packet EXCEPT ![2] = temp_int]
           /\ tpc' = "writing"
           /\ tickOutcome' = "issued"
           /\ tickRaw' = raw
           /\ tickTemp' = temp_int
           /\ tickForce' = force
           /\ tickRepeat' = (tickTemp = temp_int)
           /\ tickPrevLast' = last_temp
    /\ UNCHANGED <<ctlVars, srcVars, device, next_mandatory_write_time, now,
                   startObs, stopObs, lastOkTemp, lastOkTime>>

\* an update_loop that ends when write_temp reports a failure
AfterWriteHaltOnFailure(ok) == IF ok THEN "wait" ELSE "dead"

\* update_loop, line 364: write_temp's return value is not looked at; the
\* loop goes on to stop_event.wait whether the write succeeded or not
AfterWrite(ok) == "wait"

\* device.write(self.packet) returns or raises, d seconds after it was called
\* (lines 342-357).  It raises on a device that was closed or has gone.
device_write_return ==
    /\ tpc = "writing"
    /\ \E ok \in BOOLEAN, d \in 0..MaxWriteBlock :
        /\ ok => device = "open"
        /\ d = 0 \/ now + d <= MaxTime
        /\ now' = now + d
        /\ IF ok
           THEN /\ next_mandatory_write_time' = now' + MANDATORY_UPDATE_INTERVAL
                /\ lastOkTemp' = packet[2]
                /\ lastOkTime' = now'
                /\ tickOutcome' = "written"
           ELSE /\ UNCHANGED <<next_mandatory_write_time, lastOkTemp, lastOkTime>>
                /\ tickOutcome' = "failed"
        /\ tpc' = AfterWrite(ok)
    /\ UNCHANGED <<ctlVars, srcVars, device, packet, last_temp, startObs, stopObs,
                   tickRaw, tickTemp, tickForce, tickPrevLast, tickRepeat>>

\* self.stop_event.wait(interval): returns at once when the flag is set, else
\* when the interval has passed
update_loop_wait ==
    /\ tpc = "wait"
    /\ IF stop_event
       THEN now' = now
       ELSE /\ now < MaxTime
            /\ now' = now + DEFAULT_UPDATE_INTERVAL
    /\ tpc' = "check"
    /\ UNCHANGED <<ctlVars, srcVars, dispVars, startObs, stopObs, tickObs>>

\* ---- stop() -----------------------------------------------------------------

\* stop(), line 391, called by main (and again by any later caller)
stop_set ==
    /\ \/ mpc = "running"
       \/ mpc = "stopped" /\ stopCalls < MaxStops
    /\ stop_event' = TRUE
    /\ stopCalls' = stopCalls + 1
    /\ mpc' = IF update_thread THEN "join" ELSE "close_argus"
    /\ UNCHANGED <<attempt, update_thread, srcVars, dispVars, now, tpc, startObs,
                   mapReleases, deviceCloseCalls, tickObs>>

\* update_thread.join(timeout=2.0) returns because the thread has ended
stop_join ==
    /\ mpc = "join"
    /\ tpc \in {"done", "dead"}
    /\ mpc' = "close_argus"
    /\ UNCHANGED <<attempt, stop_event, update_thread, srcVars, dispVars, now, tpc,
                   startObs, stopObs, tickObs>>

\* update_thread.join(timeout=2.0) times out: the poll thread is still blocked
\* in device.write
stop_join_timeout ==
    /\ mpc = "join"
    /\ tpc = "writing"
    /\ now + JOIN_TIMEOUT <= MaxTime
    /\ now' = now + JOIN_TIMEOUT
    /\ mpc' = "close_argus"
    /\ UNCHANGED <<attempt, stop_event, update_thread, srcVars, dispVars, tpc,
                   startObs, stopObs, tickObs>>

\* ArgusMonitorAPI.close(), under "if self.argus" (lines 394-395, 276-282)
stop_close_argus ==
    /\ mpc = "close_argus"
    /\ IF argus.obj /\ (argus.map_view \/ argus.handle)
       THEN /\ argus' = [argus EXCEPT !.map_view = FALSE, !.handle = FALSE]
            /\ openMappings' = openMappings - 1
            /\ mapReleases' = mapReleases + 1
       ELSE UNCHANGED <<argus, openMappings, mapReleases>>
    /\ mpc' = "close_device"
    /\ UNCHANGED <<attempt, stop_event, update_thread, Signature, dispVars, now, tpc,
                   startObs, deviceCloseCalls, stopCalls, tickObs>>

\* "if self.device: self.device.close()" (lines 396-397)
stop_close_device ==
    /\ mpc = "close_device"
    /\ IF device # "None"
       THEN /\ device' = "closed"
            /\ deviceCloseCalls' = deviceCloseCalls + 1
       ELSE UNCHANGED <<device, deviceCloseCalls>>
    /\ mpc' = "stopped"
    /\ UNCHANGED <<attempt, stop_event, update_thread, srcVars, packet, last_temp,
                   next_mandatory_write_time, now, tpc, startObs, mapReleases,
                   stopCalls, tickObs>>

\* ---- specification ----------------------------------------------------------

Next ==
    \/ ExternalWriter
    \/ connect_argus_open
    \/ connect_argus_is_active
    \/ start_retry_sleep
    \/ connect_display
    \/ start_thread
    \/ update_loop_check
    \/ update_loop_tick
    \/ device_write_return
    \/ update_loop_wait
    \/ stop_set
    \/ stop_join
    \/ stop_join_timeout
    \/ stop_close_argus
    \/ stop_close_device

Spec == Init /\ [][Next]_vars

\* The poll thread is scheduled, and a device.write call returns (the HID
\* transport's own timeout); the controlling task and the external writer
\* are under no obligation.
FairSpec ==
    /\ Spec
    /\ WF_vars(update_loop_check)
    /\ WF_vars(update_loop_tick)
    /\ WF_vars(device_write_return)
    /\ WF_vars(update_loop_wait)


\* ---- properties -------------------------------------------------------------

\* time since the last device write that succeeded is below the threshold
Fresh == lastOkTime # None /\ now - lastOkTime < MANDATORY_UPDATE_INTERVAL

\* time since the last device write that succeeded has reached the threshold
Stale == lastOkTime # None /\ now - lastOkTime >= MANDATORY_UPDATE_INTERVAL

\* the step is one tick of the poll loop (up to its device write)
TickStep == tpc = "tick" /\ tpc' # "tick"

\* C1: a tick skips the device write only when the clamped value it computed
\* equals the value last successfully written to the device and less than
\* 15 s have passed since that write.
C1_SkipOnlyIfSameAsWrittenAndFresh ==
    [][(TickStep /\ tickOutcome' = "skipped")
         => (tickTemp' = lastOkTemp /\ Fresh)]_vars

\* C2: when the device write fails, last_temp and the refresh deadline are as
\* they were before write_temp was called.
C2_FailedWriteLeavesStateUnchanged ==
    tickOutcome = "failed"
      => /\ last_temp = tickPrevLast
         /\ next_mandatory_write_time =
              IF lastOkTime = None THEN 0
              ELSE lastOkTime + MANDATORY_UPDATE_INTERVAL

C4_Debounce ==
    [][(TickStep /\ tickRepeat' /\ Fresh)
         => /\ tickOutcome' = "skipped"
            /\ tpc' = "wait"
            /\ last_temp' = last_temp
            /\ next_mandatory_write_time' = next_mandatory_write_time
            /\ packet' = packet]_vars

\* the second of two ticks with the same clamped value was skipped
C4_Witness ==
    /\ tickRepeat
    /\ tickOutcome = "skipped"
    /\ tpc = "wait"
    /\ Fresh


\* start() gave up on the sensor source
SourceExhausted == startResult = "false" /\ displayCalls = 0

\* start() got past the sensor source
SourceConnected == mpc \notin {"start", "is_active", "sleep"} /\ ~SourceExhausted

\* C5: start() makes at most 6 connect_argus() attempts; when attempt k is the
\* first to succeed exactly k attempts and k - 1 delays were made and start()
\* goes on to the display; it gives up only after 6 failed attempts and 5
\* delays, and a delay is only ever taken when another attempt follows.
C5_StartupRetry ==
    /\ connectCalls <= ARGUS_CONNECTION_MAX_RETRIES
    /\ delays < ARGUS_CONNECTION_MAX_RETRIES
    /\ delays \in {connectCalls - 1, connectCalls}
    /\ mpc = "start" => delays = connectCalls /\ connectFails = connectCalls
    /\ mpc = "sleep" => /\ connectFails = connectCalls
                        /\ delays = connectCalls - 1
                        /\ connectCalls < ARGUS_CONNECTION_MAX_RETRIES
    /\ SourceConnected => /\ connectCalls = connectFails + 1
                          /\ delays = connectCalls - 1
                          /\ displayCalls = 1 \/ mpc = "connect_display"
    /\ SourceExhausted => /\ connectFails = ARGUS_CONNECTION_MAX_RETRIES
                          /\ connectCalls = ARGUS_CONNECTION_MAX_RETRIES
                          /\ delays = ARGUS_CONNECTION_MAX_RETRIES - 1
                          /\ mpc = "failed"

\* the sixth attempt was the first to succeed
C5_Witness ==
    /\ mpc = "connect_display"
    /\ connectCalls = ARGUS_CONNECTION_MAX_RETRIES
    /\ connectFails = ARGUS_CONNECTION_MAX_RETRIES - 1
    /\ delays = ARGUS_CONNECTION_MAX_RETRIES - 1

\* C6: connect_display() is only called after a connect_argus() that returned
\* True; when all attempts failed start() returns False, connect_display() was
\* never called, no device object exists and no poll thread was started.
C6_NoDisplayWithoutSource ==
    /\ (displayCalls > 0 \/ mpc = "connect_display")
         => connectCalls = connectFails + 1
    /\ connectFails = connectCalls /\ connectCalls > 0 /\ mpc \notin {"start", "sleep"}
         => /\ mpc = "failed"
            /\ startResult = "false"
            /\ displayCalls = 0
            /\ device = "None"
            /\ ~update_thread
            /\ tpc = "idle"

\* all attempts failed and start() returned False
C6_Witness ==
    /\ connectFails = ARGUS_CONNECTION_MAX_RETRIES
    /\ mpc = "failed"
    /\ startResult = "false"
    /\ displayCalls = 0

\* C7: once the controller has exited (source retries exhausted, display
\* connection failed, or stop() returned) no sensor-table mapping and no
\* device handle is open.
C7_NothingOpenAfterExit ==
    mpc \in {"failed", "stopped"} => openMappings = 0 /\ device # "open"

\* C8: once the stop flag is set no new tick begins, and the poll loop
\* eventually exits.
C8_StopEndsLoop ==
    /\ [][stop_event => ~(tpc = "check" /\ tpc' = "tick")]_vars
    /\ (stop_event ~> tpc \in {"done", "dead"})

\* the loop left through its loop condition after the stop flag was set
C8_Witness ==
    /\ stop_event
    /\ tpc = "done"
    /\ tickOutcome # "none"

\* C9: whatever the number of stop() calls, the sensor-table mapping and the
\* device handle have each been released at most once, and exactly once when
\* stop() has returned.
C9_ReleasedExactlyOnce ==
    /\ mapReleases <= 1
    /\ deviceCloseCalls <= 1
    /\ mpc = "stopped" => mapReleases = 1 /\ deviceCloseCalls = 1

\* C10: get_cpu_temp_raw() on a mapped table returns None whenever the
\* category cache was never populated or the signature is not the magic value.
C10_UnavailableWhenUncachedOrInactive ==
    [][(TickStep /\ argus.map_view
          /\ (argus.cpu_temp_count = None \/ ~Signature))
         => tickOutcome' = "unavailable"]_vars


\* C11: on a tick where the mapped table's signature is not the magic value,
\* get_cpu_temp_raw() returns None whatever the cached offset and count and
\* whatever the sensor values, and the tick issues no device write and
\* changes nothing of the display state.
C11_SignatureGating ==
    [][(TickStep /\ argus.map_view /\ ~Signature)
         => /\ tickOutcome' = "unavailable"
            /\ tpc' = "wait"
            /\ UNCHANGED <<device, packet, last_temp, next_mandatory_write_time>>]_vars

\* a tick was gated although the cached offset lies beyond the table
C11_Witness ==
    /\ tickOutcome = "unavailable"
    /\ tpc = "wait"
    /\ argus.map_view
    /\ ~Signature
    /\ argus.cpu_temp_count = 1
    /\ argus.cpu_temp_offset = MAX_SENSOR_COUNT


\* C12: when the table is active at connect time, the source caches the
\* primary CPU-temperature category's (offset, count) if its count is not
\* zero and the additional category's otherwise; with a cached count of zero
\* (both categories empty) the connection still succeeds while the table is
\* active, and every later tick gets "unavailable", never an exception.
C12_CategoryFallback ==
    [][/\ (mpc = "start" /\ mpc' = "is_active" /\ sigAtCache' = "active")
            => LET prim == tableAtCache'[1]
                   addl == tableAtCache'[2]
                   kept == IF prim.count # 0 THEN prim ELSE addl
               IN  /\ argus'.cpu_temp_offset = kept.offset
                   /\ argus'.cpu_temp_count = kept.count
       /\ (mpc = "is_active" /\ mpc' # mpc /\ Signature /\ argus.cpu_temp_count = 0)
            => mpc' = "connect_display"
       /\ (TickStep /\ argus.cpu_temp_count = 0)
            => tickOutcome' = "unavailable" /\ tpc' = "wait"]_vars

\* the primary category was empty and the additional one's entry was cached
C12_Witness ==
    /\ mpc = "is_active"
    /\ sigAtCache = "active"
    /\ tableAtCache # <<>>
    /\ tableAtCache[1].count = 0
    /\ tableAtCache[2] = [offset |-> MAX_SENSOR_COUNT, count |-> 1]
    /\ argus.cpu_temp_offset = MAX_SENSOR_COUNT
    /\ argus.cpu_temp_count = 1


\* ---- the display writer's methods called on their own ---------------------

\* raw readings from -MaxRawHalf/2 to MaxRawHalf/2 degrees in half-degree
\* steps, and NaN
ConvRawTemps == (-MaxRawHalf..MaxRawHalf) \cup {NonFinite}

\* CPUDisplayService(): the object as __init__ leaves it, no method called yet
\* (the caller's position, the device and the arguments of the next
\* write_temp call are stated by each specification)
Constructed ==
    /\ attempt = 0
    /\ stop_event = FALSE
    /\ update_thread = FALSE
    /\ argus = NoArgus
    /\ Signature = TRUE
    /\ openMappings = 0
    /\ now = 1
    /\ packet = InitialPacket
    /\ last_temp = -1
    /\ next_mandatory_write_time = 0
    /\ tpc = "idle"
    /\ connectCalls = 0
    /\ connectFails = 0
    /\ delays = 0
    /\ displayCalls = 0
    /\ startResult = "none"
    /\ sigAtCache = "none"
    /\ tableAtCache = <<>>
    /\ mapReleases = 0
    /\ deviceCloseCalls = 0
    /\ stopCalls = 0
    /\ lastOkTemp = None
    /\ lastOkTime = None
    /\ tickOutcome = "none"
    /\ tickRepeat = FALSE
    /\ tickTemp = None
    /\ tickPrevLast = None

\* A constructed service whose display is open, about to call
\* write_temp(raw_temp, force=True) with raw_temp = tickRaw.
ConvInit ==
    /\ Constructed
    /\ mpc = "write_temp"
    /\ device = "open"
    /\ tickRaw \in ConvRawTemps
    /\ tickForce = TRUE

\* write_temp(tickRaw, tickForce), lines 321-357, as one call: no device;
\* round() raising on NaN; the skip; last_temp and packet[2] stored and
\* device.write returning (ok) or raising
write_temp ==
    /\ mpc = "write_temp"
    /\ mpc' = "write_temp_done"
    /\ \E ok \in BOOLEAN :
        LET temp_int == clamp(round(tickRaw))
        IN  IF device = "None"
            THEN /\ tickOutcome' = "nodevice"
                 /\ UNCHANGED <<last_temp, packet, next_mandatory_write_time,
                                lastOkTemp, lastOkTime, tickTemp, tickPrevLast>>
            ELSE IF tickRaw = NonFinite
            THEN /\ tickOutcome' = "error"
                 /\ tickPrevLast' = last_temp
                 /\ UNCHANGED <<last_temp, packet, next_mandatory_write_time,
                                lastOkTemp, lastOkTime, tickTemp>>
            ELSE IF SkipWrite(tickForce, temp_int, last_temp)
            THEN /\ tickOutcome' = "skipped"
                 /\ tickTemp' = temp_int
                 /\ tickPrevLast' = last_temp
                 /\ UNCHANGED <<last_temp, packet, next_mandatory_write_time,
                                lastOkTemp, lastOkTime>>
            ELSE /\ tickTemp' = temp_int
                 /\ tickPrevLast' = last_temp
                 /\ last_temp' = LastTempAtWrite(temp_int, last_temp)
                 /\ packet' = [packet EXCEPT ![2] = temp_int]
                 /\ IF ok /\ device = "open"
                    THEN /\ tickOutcome' = "written"
                         /\ next_mandatory_write_time' = now + MANDATORY_UPDATE_INTERVAL
                         /\ lastOkTemp' = temp_int
                         /\ lastOkTime' = now
                    ELSE /\ tickOutcome' = "failed"
                         /\ UNCHANGED <<next_mandatory_write_time, lastOkTemp,
                                        lastOkTime>>
    /\ UNCHANGED <<attempt, stop_event, update_thread, srcVars, device, now, tpc,
                   startObs, stopObs, tickRaw, tickForce, tickRepeat>>

ConvNext == write_temp

ConvSpec == ConvInit /\ [][ConvNext]_vars

\* A caller that uses the display writer directly: connect_display() up to
\* MaxConnects times and write_temp(raw, force) calls in between, one second
\* apart.
DisplayInit ==
    /\ Constructed
    /\ mpc = "caller"
    /\ device = "None"
    /\ tickRaw = None
    /\ tickForce = FALSE

\* connect_display(), lines 310-319, called by that caller
caller_connect_display ==
    /\ mpc = "caller"
    /\ displayCalls < MaxConnects
    /\ displayCalls' = displayCalls + 1
    /\ \E opened \in BOOLEAN :
        IF opened
        THEN /\ device' = "open"
             /\ next_mandatory_write_time' = 0
        ELSE /\ device' = "unopened"
             /\ next_mandatory_write_time' = next_mandatory_write_time
    /\ UNCHANGED <<ctlVars, srcVars, packet, last_temp, now, tpc, connectCalls,
                   connectFails, delays, startResult, sigAtCache, tableAtCache,
                   stopObs, tickObs>>

\* the caller calls write_temp(raw, force); force defaults to False (line 321)
caller_write_temp ==
    /\ mpc = "caller"
    /\ mpc' = "write_temp"
    /\ \E raw \in RawTemps, force \in BOOLEAN :
        /\ tickRaw' = raw
        /\ tickForce' = force
    /\ UNCHANGED <<attempt, stop_event, update_thread, srcVars, dispVars, now, tpc,
                   startObs, stopObs, lastOkTemp, lastOkTime, tickOutcome,
                   tickTemp, tickPrevLast, tickRepeat>>

\* write_temp has returned; a second passes before the caller's next call
caller_write_temp_returned ==
    /\ mpc = "write_temp_done"
    /\ mpc' = "caller"
    /\ now < MaxTime
    /\ now' = now + 1
    /\ UNCHANGED <<attempt, stop_event, update_thread, srcVars, dispVars, tpc,
                   startObs, stopObs, tickObs>>

DisplayNext ==
    \/ caller_connect_display
    \/ caller_write_temp
    \/ write_temp
    \/ caller_write_temp_returned

DisplaySpec == DisplayInit /\ [][DisplayNext]_vars

\* the integer nearest to h/2, the even one of the two when h/2 lies halfway
NearestEven(h) ==
    CHOOSE r \in (-MaxRawHalf - 1)..(MaxRawHalf + 1) :
        /\ 2 * r - h \in -1..1
        /\ (2 * r # h => r % 2 = 0)

\* C13: for every finite raw reading the byte placed in the packet is the
\* reading rounded to the nearest integer (halves to the even neighbour, for
\* every input alike) and then limited to 0..99: 0 when the rounded value is
\* below 0, 99 when it is above 99, the rounded value itself otherwise.
C13_ClampRound ==
    (mpc = "write_temp_done" /\ tickRaw # NonFinite)
        => LET r == NearestEven(tickRaw)
           IN  /\ packet[2] \in 0..99
               /\ (r < 0 => packet[2] = 0)
               /\ (r > 99 => packet[2] = 99)
               /\ (r \in 0..99 => packet[2] = r)

\* 2.5 degrees was written as 2 (and 150 degrees would be written as 99)
C13_Witness ==
    /\ mpc = "write_temp_done"
    /\ tickRaw = 5
    /\ packet[2] = 2


\* C14: every packet handed to device.write, whatever was written through
\* the same buffer before, has exactly 65 bytes: byte 0 is 0x00, byte 1 is
\* 0x10, byte 2 is the clamped temperature of this tick, within 0..99, and
\* bytes 3..64 are zero.
C14_PacketShape ==
    tpc = "writing"
        => /\ DOMAIN packet = 0..64
           /\ packet[0] = 0
           /\ packet[1] = 16
           /\ packet[2] \in 0..99
           /\ packet[2] = tickTemp
           /\ \A i \in 3..64 : packet[i] = 0

\* a packet being written through a buffer that carried another value before
C14_Witness ==
    /\ tpc = "writing"
    /\ lastOkTemp # None
    /\ lastOkTemp # packet[2]
    /\ packet[2] = 99


\* C15: a device write that fails leaves the device handle open and starts no
\* connection attempt; the loop goes on to its wait, which (stop flag unset)
\* lasts the polling interval as always, and then to the next tick, where a
\* write is attempted again whenever the refresh is forced or the value
\* differs from last_temp.
C15_WriteFailureDoesNotHalt ==
    [][/\ (tpc = "writing" /\ tickOutcome' = "failed")
            => /\ tpc' = "wait"
               /\ UNCHANGED <<mpc, device, deviceCloseCalls, displayCalls,
                              connectCalls, argus, update_thread>>
       /\ (tickOutcome = "failed" /\ tpc = "wait" /\ tpc' # tpc)
            => /\ tpc' = "check"
               /\ ~stop_event => now' = now + DEFAULT_UPDATE_INTERVAL
       /\ (tickOutcome = "failed" /\ tpc = "check" /\ tpc' # tpc /\ ~stop_event)
            => tpc' = "tick"
       /\ (tickOutcome = "failed" /\ TickStep /\ tickTemp' # None)
            => /\ tickForce' = (now >= next_mandatory_write_time)
               /\ (tickOutcome' = "issued") = (tickForce' \/ tickTemp' # last_temp)]_vars

\* after a write that failed (none has succeeded yet) the running loop has
\* issued another write on the same open device
C15_Witness ==
    /\ tpc = "writing"
    /\ tickOutcome = "issued"
    /\ lastOkTime = None
    /\ tickPrevLast \in 0..99
    /\ device = "open"
    /\ ~stop_event
    /\ displayCalls = 1


\* C16: stop() releases nothing while the poll loop is still executing: when
\* the sensor-table mapping has been released or device.close() has been
\* called, the poll thread has ended.
C16_NoReleaseWhileLoopRuns ==
    (mapReleases > 0 \/ deviceCloseCalls > 0)
        => (~update_thread \/ tpc \in {"done", "dead"})


\* C17: the poll loop ends only on the stop signal: whenever the poll thread
\* has ended, the stop flag is set.
C17_LoopEndsOnlyOnStop ==
    tpc \in {"done", "dead"} => stop_event


\* C18: start() calls connect_display() exactly once; when that call fails
\* start() has returned False at once (no further call, no sleep beyond the
\* ones that followed failed source attempts) and the poll thread is never
\* started.
C18_DisplayConnectOnce ==
    /\ displayCalls <= 1
    /\ (mpc \in {"list_temps", "running", "raised"} \/ device # "None")
            => displayCalls = 1
    /\ device = "unopened"
            => /\ mpc = "failed"
               /\ startResult = "false"
               /\ ~update_thread
               /\ tpc = "idle"
               /\ delays = connectFails

\* the display could not be opened after the source connected at the third
\* attempt
C18_Witness ==
    /\ device = "unopened"
    /\ displayCalls = 1
    /\ connectFails = 2
    /\ mpc = "failed"


\* C19: last_temp and next_mandatory_write_time are left as they are by every
\* step other than write_temp, and every successful connect_display() puts
\* both back to their initial values (-1 and 0).
C19_StateResetOnConnect ==
    [][/\ (/\ mpc # "write_temp"
           /\ tpc \notin {"tick", "writing"}
           /\ ~(displayCalls' # displayCalls /\ device' = "open"))
            => UNCHANGED <<last_temp, next_mandatory_write_time>>
       /\ (displayCalls' # displayCalls /\ device' = "open")
            => /\ last_temp' = -1
               /\ next_mandatory_write_time' = 0]_vars


====
